---- MODULE Spec2Model ----
(***************************************************************************)
(* Model of the two profile switchers of the repository:                   *)
(*   src/nvidia.py   GPU switcher (nvidia / intel / toggle / status)        *)
(*   src/highdpi.py  display-scaling switcher (highdpi / normal)            *)
(* One action is one invocation of a program: the whole run from argv to   *)
(* process exit.  A run is computed by threading a run record through the  *)
(* statements of the script in source order; once the process has exited   *)
(* (sys.exit or an uncaught exception) the remaining statements are        *)
(* skipped.                                                                *)
(***************************************************************************)
EXTENDS Integers, Sequences, FiniteSets, TLC

VARIABLES
    fs,         \* nvidia.py: the five managed files, name -> file record
    dirs,       \* nvidia.py: the parent directories that exist
    tool,       \* the program this behaviour runs: "nvidia.py" or "highdpi.py"
    last,       \* nvidia.py: observation of the latest invocation
    xsessionrc, \* highdpi.py: ~/.xsessionrc (bytes)
    alacritty,  \* highdpi.py: alacritty.toml (bytes)
    lastA,      \* highdpi.py: observation of the latest invocation
    cycle,      \* highdpi.py: bookkeeping of consecutive highdpi/normal cycles
    runsA       \* highdpi.py: number of invocations so far

vars == <<tool, fs, dirs, last, xsessionrc, alacritty, lastA, cycle, runsA>>
varsB == <<fs, dirs, last>>
varsA == <<xsessionrc, alacritty, lastA, cycle, runsA>>

(***************************************************************************)
(* Bounds of the model.                                                    *)
(***************************************************************************)
MaxLines == 1       \* lines of lspci output
MaxChunks == 2      \* chunks the initial ~/.xsessionrc is built from
MaxAlaChunks == 1   \* chunks the initial alacritty.toml is built from
MaxRuns == 2        \* invocations of highdpi.py in one behaviour

(***************************************************************************)
(* nvidia.py: paths and file contents                                      *)
(***************************************************************************)
XORG_CONF_DIR == "/etc/X11/xorg.conf.d"
NVIDIA_CONF == "/etc/X11/xorg.conf.d/10-nvidia-drm-outputclass.conf"
LIGHTDM_SETUP == "/etc/lightdm/nvidia.sh"
LIGHTDM_DIR == "/etc/lightdm"
LIGHTDM_CONF_D == "/etc/lightdm/lightdm.conf.d"
LIGHTDM_NVIDIA_CONF == "/etc/lightdm/lightdm.conf.d/20-nvidia.conf"
STATE_FILE == "/tmp/gpu-mode.state"
UDEV_RULES_FILE == "/etc/udev/rules.d/00-remove-nvidia.rules"
UDEV_DIR == "/etc/udev/rules.d"

Files == {NVIDIA_CONF, LIGHTDM_SETUP, LIGHTDM_NVIDIA_CONF, STATE_FILE, UDEV_RULES_FILE}
Dirs == {XORG_CONF_DIR, LIGHTDM_DIR, LIGHTDM_CONF_D, UDEV_DIR}

\* dirname of a managed file; /tmp always exists and is not tracked
DirOf(f) ==
    CASE f = NVIDIA_CONF -> {XORG_CONF_DIR}
      [] f = LIGHTDM_SETUP -> {LIGHTDM_DIR}
      [] f = LIGHTDM_NVIDIA_CONF -> {LIGHTDM_DIR, LIGHTDM_CONF_D}
      [] f = UDEV_RULES_FILE -> {UDEV_DIR}
      [] OTHER -> {}

\* A file: whether it exists, its text (a template name and, for the
\* output-class config, the bus identifier formatted into it), its mode.
NoBusId == <<>>
Absent == [exists |-> FALSE, text |-> "", busid |-> NoBusId, mode |-> ""]
FileOf(text, busid, mode) == [exists |-> TRUE, text |-> text, busid |-> busid, mode |-> mode]

NVIDIA_CONFIG_TEMPLATE(busid) == [text |-> "NVIDIA_CONFIG_TEMPLATE", busid |-> busid]
UDEV_RULES_CONTENT == [text |-> "UDEV_RULES_CONTENT", busid |-> NoBusId]
LIGHTDM_SETUP_SCRIPT == [text |-> "LIGHTDM_SETUP_SCRIPT", busid |-> NoBusId]
LIGHTDM_NVIDIA_CONFIG == [text |-> "LIGHTDM_NVIDIA_CONFIG", busid |-> NoBusId]
StateText(s) == [text |-> s, busid |-> NoBusId]

(***************************************************************************)
(* The run record threaded through one invocation.                         *)
(*   out   everything printed, in order                                    *)
(*   conf  the closing confirmation block (result line and the operator    *)
(*         instructions), a sub-sequence of out                            *)
(*   ops   file-system mutations and external command invocations          *)
(***************************************************************************)
Begin(f, d) ==
    [fs |-> f, dirs |-> d, out |-> <<>>, conf |-> <<>>, ops |-> <<>>,
     exit |-> 0, done |-> FALSE, exc |-> "", busid |-> <<>>]

Op(kind, target) == [op |-> kind, target |-> target]

print(r, msg) == [r EXCEPT !.out = Append(@, msg)]
confirm(r, msg) == [r EXCEPT !.out = Append(@, msg), !.conf = Append(@, msg)]

\* sys.exit(code)
sys_exit(r, code) == [r EXCEPT !.exit = code, !.done = TRUE]

\* an exception no handler catches: traceback, exit status 1
Uncaught(r, e) == [r EXCEPT !.exit = 1, !.done = TRUE, !.exc = e]

exists(r, f) == r.fs[f].exists

\* os.remove(f)
os_remove(r, f) ==
    [r EXCEPT !.fs[f] = Absent, !.ops = Append(@, Op("remove", f))]

\* Path(d).mkdir(parents=True, exist_ok=True) for the directories of f
mkdir(r, f) ==
    [r EXCEPT !.dirs = @ \cup DirOf(f),
              !.ops = IF DirOf(f) \subseteq r.dirs THEN @ ELSE Append(@, Op("mkdir", f))]

\* with open(f, 'w') as fh: fh.write(c)  -- an existing file keeps its mode
write_file(r, f, c) ==
    [r EXCEPT !.fs[f] = FileOf(c.text, c.busid,
                               IF r.fs[f].exists THEN r.fs[f].mode ELSE "0o644"),
              !.ops = Append(@, Op("write", f))]

\* os.chmod(f, 0o755)
os_chmod(r, f) ==
    [r EXCEPT !.fs[f].mode = "0o755", !.ops = Append(@, Op("chmod", f))]

(***************************************************************************)
(* nvidia.py: run_cmd.  subprocess.run(cmd, check=True) either returns,    *)
(* raises CalledProcessError (non-zero exit status: caught and printed) or *)
(* raises OSError when the program cannot be started (not caught).         *)
(***************************************************************************)
CmdOutcomes == {"ok", "fail", "oserror"}

run_cmd(r, cmd, outcome) ==
    LET r1 == [r EXCEPT !.ops = Append(@, Op("run", cmd))]
    IN  CASE outcome = "ok" -> r1
          [] outcome = "fail" -> print(r1, "Command failed")
          [] OTHER -> Uncaught(r1, "FileNotFoundError")

(***************************************************************************)
(* nvidia.py: get_nvidia_busid                                             *)
(* A line of `lspci -nn` output is its first whitespace-separated field    *)
(* (the PCI address, as characters) and the keywords its text contains.    *)
(***************************************************************************)
HexDigits == <<"0", "1", "2", "3", "4", "5", "6", "7", "8", "9", "a", "b", "c", "d", "e", "f">>

DigitVal(c) == (CHOOSE i \in 1..Len(HexDigits) : HexDigits[i] = c) - 1
IsDigit(c, base) == \E i \in 1..base : HexDigits[i] = c

RECURSIVE IntVal(_, _)
IntVal(s, base) ==
    IF s = <<>> THEN 0
    ELSE IntVal(SubSeq(s, 1, Len(s) - 1), base) * base + DigitVal(s[Len(s)])

\* int(s, base): ValueError on an empty string or a character that is no digit
IntOk(s, base) == s # <<>> /\ \A i \in 1..Len(s) : IsDigit(s[i], base)

\* s.replace(".", ":")
Replace(s, a, b) == [i \in 1..Len(s) |-> IF s[i] = a THEN b ELSE s[i]]

\* s.split(sep): the fields between separators, empty fields kept
RECURSIVE Split(_, _)
Split(s, sep) ==
    IF \A i \in 1..Len(s) : s[i] # sep THEN <<s>>
    ELSE LET k == CHOOSE i \in 1..Len(s) : s[i] = sep /\ \A j \in 1..(i - 1) : s[j] # sep
         IN  <<SubSeq(s, 1, k - 1)>> \o Split(SubSeq(s, k + 1, Len(s)), sep)

Line(addr, words) == [addr |-> addr, words |-> words]

\* variant of Matches: the vendor test left out
MatchesAnyVendor(line) == "VGA" \in line.words \/ "3D" \in line.words

\* "NVIDIA" in line and ("VGA" in line or "3D" in line)
Matches(line) == "NVIDIA" \in line.words /\ ("VGA" \in line.words \/ "3D" \in line.words)

\* lines 86-90: the address of a matching line to "PCI:bus:dev:fn";
\* err names the exception raised instead
ParseBusId(line) ==
    LET parts == Split(Replace(line.addr, ".", ":"), ":")
    IN  IF Len(parts) < 3 THEN [busid |-> NoBusId, err |-> "IndexError"]
        ELSE IF ~(IntOk(parts[1], 16) /\ IntOk(parts[2], 16) /\ IntOk(parts[3], 10))
        THEN [busid |-> NoBusId, err |-> "ValueError"]
        ELSE [busid |-> <<IntVal(parts[1], 16), IntVal(parts[2], 16), IntVal(parts[3], 10)>>,
              err |-> ""]

\* the for loop of lines 82-90: the first matching line decides
RECURSIVE ScanLines(_, _)
ScanLines(lines, i) ==
    IF i > Len(lines) THEN [busid |-> NoBusId, err |-> ""]
    ELSE IF Matches(lines[i]) THEN ParseBusId(lines[i])
    ELSE ScanLines(lines, i + 1)

\* get_nvidia_busid: the run record after the call, the value returned in
\* its field busid (NoBusId for None).  lspci = [status, stdout].
get_nvidia_busid(r, lspci) ==
    LET r1 == [r EXCEPT !.ops = Append(@, Op("run", "lspci")), !.busid = NoBusId]
        found == ScanLines(lspci.stdout, 1)
    IN  CASE lspci.status = "oserror" -> Uncaught(r1, "FileNotFoundError")
          [] lspci.status = "fail" -> print(r1, "Warning: Could not detect NVIDIA BusID")
          [] OTHER ->
               IF found.err # ""
               THEN print(r1, "Warning: Could not detect NVIDIA BusID")
               ELSE [r1 EXCEPT !.busid = found.busid]

(***************************************************************************)
(* nvidia.py: check_root, get_current_mode, is_gpu_powered_down            *)
(***************************************************************************)
\* variant of check_root: the error is printed, the process goes on
check_root_warn(r, root) ==
    IF ~root
    THEN print(r, "Error: This script must be run as root (use sudo)")
    ELSE r

check_root(r, root) ==
    IF ~root
    THEN sys_exit(print(r, "Error: This script must be run as root (use sudo)"), 1)
    ELSE r

get_current_mode(r) == IF exists(r, NVIDIA_CONF) THEN "nvidia" ELSE "intel"

is_gpu_powered_down(r) == exists(r, UDEV_RULES_FILE)

(***************************************************************************)
(* nvidia.py: switch_to_nvidia                                             *)
(***************************************************************************)
\* variant of nvidia_remove_udev: the rule file is left in place
nvidia_keep_udev(r, udev) == r

\* lines 136-142
nvidia_remove_udev(r, udev) ==
    IF exists(r, UDEV_RULES_FILE)
    THEN LET r1 == print(os_remove(r, UDEV_RULES_FILE), "Removed udev rules")
             r2 == run_cmd(r1, "udevadm", udev)
         IN  IF r2.done THEN r2 ELSE print(r2, "Reloaded udev rules")
    ELSE r

\* lines 153-184, reached with a detected bus identifier
nvidia_install(r, busid) ==
    LET r1 == print(r, "Detected NVIDIA GPU at BusID")
        r2 == write_file(mkdir(r1, NVIDIA_CONF), NVIDIA_CONF, NVIDIA_CONFIG_TEMPLATE(busid))
        r3 == print(r2, "Created NVIDIA config")
        r4 == write_file(mkdir(r3, LIGHTDM_SETUP), LIGHTDM_SETUP, LIGHTDM_SETUP_SCRIPT)
        r5 == print(os_chmod(r4, LIGHTDM_SETUP), "Created LightDM setup script")
        r6 == write_file(mkdir(r5, LIGHTDM_NVIDIA_CONF), LIGHTDM_NVIDIA_CONF, LIGHTDM_NVIDIA_CONFIG)
        r7 == print(r6, "Created LightDM config")
        r8 == write_file(r7, STATE_FILE, StateText("nvidia"))
        r9 == confirm(r8, "Switched to NVIDIA GPU")
    IN  confirm(r9, "Please restart your display manager or reboot for changes to take effect")

\* variant of nvidia_detect_failed: the state file is saved before the exit
nvidia_detect_failed_saves_state(r) ==
    sys_exit(write_file(print(r, "Error: Could not detect NVIDIA GPU BusID"),
                        STATE_FILE, StateText("nvidia")), 1)

\* lines 146-150
nvidia_detect_failed(r) ==
    sys_exit(print(r, "Error: Could not detect NVIDIA GPU BusID"), 1)

switch_to_nvidia(r, env) ==
    LET r1 == nvidia_remove_udev(print(r, "Switching to NVIDIA GPU..."), env.udev)
        r2 == get_nvidia_busid(r1, env.lspci)
    IN  IF r1.done THEN r1
        ELSE IF r2.done THEN r2
        ELSE IF r2.busid = NoBusId THEN nvidia_detect_failed(r2)
        ELSE nvidia_install(r2, r2.busid)

(***************************************************************************)
(* nvidia.py: switch_to_intel                                              *)
(***************************************************************************)
\* lines 190-205
intel_remove_configs(r) ==
    LET r1 == IF exists(r, NVIDIA_CONF)
              THEN print(os_remove(r, NVIDIA_CONF), "Removed NVIDIA config")
              ELSE print(r, "NVIDIA config not found, already using integrated graphics")
        r2 == IF exists(r1, LIGHTDM_SETUP)
              THEN print(os_remove(r1, LIGHTDM_SETUP), "Removed LightDM setup script")
              ELSE r1
    IN  IF exists(r2, LIGHTDM_NVIDIA_CONF)
        THEN print(os_remove(r2, LIGHTDM_NVIDIA_CONF), "Removed LightDM config")
        ELSE r2

\* variant of intel_power_down: without the option the rule file is kept
intel_power_down_keep(r, power_down, udev) ==
    IF power_down
    THEN LET r1 == write_file(mkdir(r, UDEV_RULES_FILE), UDEV_RULES_FILE, UDEV_RULES_CONTENT)
             r2 == run_cmd(print(r1, "Created udev rules for GPU power down"), "udevadm", udev)
         IN  IF r2.done THEN r2
             ELSE print(print(r2, "Reloaded udev rules"), "GPU will be powered down on next reboot")
    ELSE r

\* lines 208-226
intel_power_down(r, power_down, udev) ==
    IF power_down
    THEN LET r1 == write_file(mkdir(r, UDEV_RULES_FILE), UDEV_RULES_FILE, UDEV_RULES_CONTENT)
             r2 == run_cmd(print(r1, "Created udev rules for GPU power down"), "udevadm", udev)
         IN  IF r2.done THEN r2
             ELSE print(print(r2, "Reloaded udev rules"), "GPU will be powered down on next reboot")
    ELSE IF exists(r, UDEV_RULES_FILE)
         THEN run_cmd(print(os_remove(r, UDEV_RULES_FILE), "Removed udev rules"), "udevadm", udev)
         ELSE r

\* lines 228-237
intel_finish(r, power_down) ==
    LET r1 == write_file(r, STATE_FILE,
                         StateText(IF power_down THEN "intel-powerdown" ELSE "intel"))
        r2 == confirm(r1, "Switched to integrated graphics")
        r3 == IF power_down THEN confirm(r2, "GPU power down enabled (will take effect after reboot)")
              ELSE r2
    IN  confirm(r3, "Please restart your display manager or reboot for changes to take effect")

switch_to_intel(r, power_down, env) ==
    LET r1 == intel_remove_configs(print(r, "Switching to integrated graphics..."))
        r2 == intel_power_down(r1, power_down, env.udev)
    IN  IF r2.done THEN r2 ELSE intel_finish(r2, power_down)

(***************************************************************************)
(* nvidia.py: show_status and main                                         *)
(***************************************************************************)
show_status(r) ==
    LET mode == get_current_mode(r)
        r1 == print(r, IF mode = "nvidia" THEN "Current GPU mode: nvidia"
                       ELSE "Current GPU mode: intel")
        r2 == print(r1, IF mode = "nvidia" THEN "  NVIDIA GPU is active"
                        ELSE "  Integrated graphics is active")
    IN  print(r2, IF is_gpu_powered_down(r) THEN "  GPU power down: ENABLED"
                  ELSE "  GPU power down: disabled")

\* str.lower() on the command words the model feeds in
lower(s) ==
    CASE s = "NVIDIA" -> "nvidia"
      [] s = "Intel" -> "intel"
      [] s = "TOGGLE" -> "toggle"
      [] s = "Status" -> "status"
      [] OTHER -> s

InArgv(argv, a) == \E i \in 1..Len(argv) : argv[i] = a

\* line 281
power_down_of(argv) == InArgv(argv, "--powerdown") \/ InArgv(argv, "-p")

\* lines 289-302
dispatch(r, command, power_down, env) ==
    CASE command = "nvidia" -> switch_to_nvidia(r, env)
      [] command = "intel" -> switch_to_intel(r, power_down, env)
      [] command = "toggle" ->
           IF get_current_mode(r) = "nvidia"
           THEN switch_to_intel(r, power_down, env)
           ELSE switch_to_nvidia(r, env)
      [] OTHER -> sys_exit(print(print(r, "Unknown command"),
                                 "Valid commands: nvidia, intel, toggle, status"), 1)

\* argv is sys.argv[1:]
main(r, argv, root, env) ==
    IF Len(argv) < 1
    THEN sys_exit(print(show_status(print(r, "NVIDIA GPU Switcher")), "Usage:"), 0)
    ELSE IF lower(argv[1]) = "status"
    THEN sys_exit(show_status(r), 0)
    ELSE LET r1 == check_root(r, root)
         IN  IF r1.done THEN r1
             ELSE dispatch(r1, lower(argv[1]), power_down_of(argv), env)

(***************************************************************************)
(* nvidia.py: the inputs of an invocation and the state machine            *)
(***************************************************************************)
SeqsUpTo(S, n) == UNION {[1..k -> S] : k \in 0..n}

\* sample lines of `lspci -nn`
LspciLines ==
    { Line(<<"0", "0", ":", "0", "2", ".", "0">>, {"VGA", "Intel"}),
      Line(<<"0", "1", ":", "0", "0", ".", "0">>, {"VGA", "NVIDIA"}),
      Line(<<"0", "a", ":", "0", "0", ".", "0">>, {"3D", "NVIDIA"}),
      Line(<<"0", "1", ":", "0", "0", ".", "1">>, {"Audio", "NVIDIA"}),
      Line(<<"0", "1", ":", "0", "0">>, {"VGA", "NVIDIA"}),
      Line(<<"0", "1", ":", "0", "0", ".", "a">>, {"3D", "NVIDIA"}) }

LspciResults ==
    {[status |-> st, stdout |-> <<>>] : st \in {"fail", "oserror"}}
    \cup {[status |-> "ok", stdout |-> s] : s \in SeqsUpTo(LspciLines, MaxLines)}

NoLspci == [status |-> "ok", stdout |-> <<>>]

Env(lspci, udev) == [lspci |-> lspci, udev |-> udev]

InSeq(s, x) == \E i \in 1..Len(s) : s[i] = x

\* which transition the run entered
Applied(r) ==
    IF InSeq(r.out, "Switching to NVIDIA GPU...") THEN "nvidia"
    ELSE IF InSeq(r.out, "Switching to integrated graphics...") THEN "intel"
    ELSE "none"

\* the PCI enumeration output holds no line naming NVIDIA and VGA or 3D
NoMatchingLine(lspci) ==
    \A i \in 1..Len(lspci.stdout) :
        LET w == lspci.stdout[i].words
        IN  "NVIDIA" \notin w \/ ("VGA" \notin w /\ "3D" \notin w)

Observe(r, argv, root, env, before) ==
    [ran |-> TRUE,
     command |-> IF Len(argv) < 1 THEN "" ELSE lower(argv[1]),
     power_down |-> power_down_of(argv),
     root |-> root,
     applied |-> Applied(r),
     before |-> before,
     out |-> r.out, conf |-> r.conf, ops |-> r.ops,
     exit |-> r.exit, exc |-> r.exc,
     detect |-> IF ~InSeq(r.ops, Op("run", "lspci")) THEN "n/a"
                ELSE IF r.exc # "" THEN "crash"
                ELSE IF r.busid = NoBusId THEN "none" ELSE "found",
     nomatch |-> NoMatchingLine(env.lspci),
     busid |-> r.busid,
     udev |-> IF InSeq(r.ops, Op("run", "udevadm")) THEN env.udev ELSE "n/a"]

NoRun(f) ==
    [ran |-> FALSE, command |-> "", power_down |-> FALSE, root |-> FALSE,
     applied |-> "none", before |-> f, out |-> <<>>, conf |-> <<>>, ops |-> <<>>,
     exit |-> 0, exc |-> "", detect |-> "n/a", nomatch |-> TRUE, busid |-> NoBusId,
     udev |-> "n/a"]

InitOptions(f) ==
    CASE f = NVIDIA_CONF ->
           {Absent, FileOf("NVIDIA_CONFIG_TEMPLATE", <<1, 0, 0>>, "0o644"),
            FileOf("other", NoBusId, "0o644")}
      [] f = LIGHTDM_SETUP ->
           {Absent, FileOf("other", NoBusId, "0o644")}
      [] f = LIGHTDM_NVIDIA_CONF ->
           {Absent, FileOf("LIGHTDM_NVIDIA_CONFIG", NoBusId, "0o644")}
      [] f = STATE_FILE ->
           {Absent, FileOf("other", NoBusId, "0o644")}
      [] OTHER ->
           {Absent, FileOf("UDEV_RULES_CONTENT", NoBusId, "0o644"),
            FileOf("other", NoBusId, "0o644")}

InitFiles ==
    {g \in [Files -> UNION {InitOptions(f) : f \in Files}] :
        \A f \in Files : g[f] \in InitOptions(f)}

NeededDirs(f) == UNION {DirOf(n) : n \in {m \in Files : f[m].exists}}

InitB ==
    /\ tool = "nvidia.py"
    /\ fs \in InitFiles
    /\ dirs = NeededDirs(fs)
    /\ last = NoRun(fs)
    /\ xsessionrc = [exists |-> FALSE, content |-> <<>>]
    /\ alacritty = [exists |-> FALSE, content |-> <<>>]
    /\ lastA = [ran |-> FALSE, argv |-> <<>>, env |-> <<"ok", "ok", "ok", "ok">>,
                before_xs |-> [exists |-> FALSE, content |-> <<>>],
                before_ala |-> [exists |-> FALSE, content |-> <<>>],
                out |-> <<>>, conf |-> <<>>, ops |-> <<>>, exit |-> 0, exc |-> ""]
    /\ cycle = [valid |-> FALSE, base |-> <<>>, k |-> 0, mid |-> FALSE]
    /\ runsA = 0

Invoke(argv, root, env) ==
    /\ tool = "nvidia.py"
    /\ \E r \in {main(Begin(fs, dirs), argv, root, env)} :
        /\ fs' = r.fs
        /\ dirs' = r.dirs
        /\ last' = Observe(r, argv, root, env, fs)
        /\ UNCHANGED <<tool, varsA>>

\* The outcomes an external command can have in a run: a command the run
\* cannot reach is given one outcome, which nothing reads.
UdevOutcomes(power_down) ==
    IF fs[UDEV_RULES_FILE].exists \/ power_down THEN CmdOutcomes ELSE {"ok"}

LspciOutcomes(reached) == IF reached THEN LspciResults ELSE {NoLspci}

NvidiaArgvs == {<<"nvidia">>, <<"NVIDIA", "--powerdown">>}
IntelArgvs == {<<"intel">>, <<"Intel", "--powerdown">>}
ToggleArgvs == {<<"toggle">>, <<"TOGGLE", "-p">>}
UnknownArgvs == {<<"bogus">>, <<"--powerdown", "intel">>}
StatusArgvs == {<<"status">>, <<"Status", "-p">>}

\* no argument: status and usage, whoever runs it
NoArgs == \E root \in BOOLEAN : Invoke(<<>>, root, Env(NoLspci, "ok"))

Status == \E argv \in StatusArgvs, root \in BOOLEAN : Invoke(argv, root, Env(NoLspci, "ok"))

\* any other command run without elevated privilege
Unprivileged ==
    \E argv \in NvidiaArgvs \cup IntelArgvs \cup ToggleArgvs \cup UnknownArgvs :
        Invoke(argv, FALSE, Env(NoLspci, "ok"))

Nvidia ==
    \E argv \in NvidiaArgvs, udev \in UdevOutcomes(FALSE) :
        \E lspci \in LspciOutcomes(udev # "oserror") :
            Invoke(argv, TRUE, Env(lspci, udev))

Intel ==
    \E argv \in IntelArgvs :
        \E udev \in UdevOutcomes(power_down_of(argv)) :
            Invoke(argv, TRUE, Env(NoLspci, udev))

Toggle ==
    \E argv \in ToggleArgvs :
        \E udev \in UdevOutcomes(power_down_of(argv) /\ fs[NVIDIA_CONF].exists) :
            \E lspci \in LspciOutcomes(~fs[NVIDIA_CONF].exists /\ udev # "oserror") :
                Invoke(argv, TRUE, Env(lspci, udev))

Unknown == \E argv \in UnknownArgvs : Invoke(argv, TRUE, Env(NoLspci, "ok"))

NextB == NoArgs \/ Status \/ Unprivileged \/ Nvidia \/ Intel \/ Toggle \/ Unknown

SpecB == InitB /\ [][NextB]_vars

(***************************************************************************)
(* highdpi.py: text files.  A file holds bytes, one character each.  A     *)
(* file opened in text mode for reading has "\r\n" and a lone "\r"         *)
(* translated to "\n" (universal newlines); text written on Linux is kept  *)
(* as it is.                                                               *)
(***************************************************************************)
XSESSIONRC == "~/.xsessionrc"
ALACRITTY_CONFIG == "~/.config/alacritty/alacritty.toml"

\* "export QT_SCALE_FACTOR=2"
Marker == <<"e", "x", "p", "o", "r", "t", " ", "Q", "T", "_", "S", "C", "A", "L", "E", "_", "F", "A", "C", "T", "O", "R", "=", "2">>

NoFile == [exists |-> FALSE, content |-> <<>>]
TextFile(c) == [exists |-> TRUE, content |-> c]

\* f.read() of a file opened with mode "r"
RECURSIVE ReadText(_)
ReadText(b) ==
    IF b = <<>> THEN <<>>
    ELSE IF b[1] = "\r"
         THEN <<"\n">> \o ReadText(IF Len(b) >= 2 /\ b[2] = "\n"
                                   THEN SubSeq(b, 3, Len(b)) ELSE Tail(b))
         ELSE <<b[1]>> \o ReadText(Tail(b))

\* m in s
Contains(s, m) ==
    \E i \in 1..(Len(s) - Len(m) + 1) : SubSeq(s, i, i + Len(m) - 1) = m

\* the lines of a text, each with its "\n" (the last one may have none)
RECURSIVE SplitLines(_)
SplitLines(t) ==
    IF t = <<>> THEN <<>>
    ELSE IF \A i \in 1..Len(t) : t[i] # "\n" THEN <<t>>
    ELSE LET k == CHOOSE i \in 1..Len(t) : t[i] = "\n" /\ \A j \in 1..(i - 1) : t[j] # "\n"
         IN  <<SubSeq(t, 1, k)>> \o SplitLines(SubSeq(t, k + 1, Len(t)))

\* f.readlines() of a file opened with mode "r"
readlines(b) == SplitLines(ReadText(b))

RECURSIVE Concat(_)
Concat(ls) == IF ls = <<>> THEN <<>> ELSE Head(ls) \o Concat(Tail(ls))

\* lines 89-93: the lines written back
KeptLines(lines) == SelectSeq(lines, LAMBDA l : ~Contains(l, Marker))

(***************************************************************************)
(* highdpi.py: re.sub(r"size = \d+\.\d+", repl, content)                   *)
(***************************************************************************)
SizePrefix == <<"s", "i", "z", "e", " ", "=", " ">>

IsDec(c) == c \in {"0", "1", "2", "3", "4", "5", "6", "7", "8", "9"}

\* the end of the longest run of digits of s starting at i (i - 1 if none)
RECURSIVE DigitsEnd(_, _)
DigitsEnd(s, i) ==
    IF i <= Len(s) /\ IsDec(s[i]) THEN DigitsEnd(s, i + 1) ELSE i - 1

\* variant of MatchEnd: the pattern "size = \d+", without the fraction
MatchEndInteger(s, i) ==
    IF i + Len(SizePrefix) - 1 > Len(s) \/ SubSeq(s, i, i + Len(SizePrefix) - 1) # SizePrefix
    THEN 0
    ELSE IF DigitsEnd(s, i + Len(SizePrefix)) < i + Len(SizePrefix) THEN 0
    ELSE DigitsEnd(s, i + Len(SizePrefix))

\* the end of the match of the pattern at i, 0 if there is none
MatchEnd(s, i) ==
    IF i + Len(SizePrefix) - 1 > Len(s) \/ SubSeq(s, i, i + Len(SizePrefix) - 1) # SizePrefix
    THEN 0
    ELSE LET d1 == DigitsEnd(s, i + Len(SizePrefix))
             d2 == DigitsEnd(s, d1 + 2)
         IN  IF d1 < i + Len(SizePrefix) THEN 0
             ELSE IF d1 + 1 > Len(s) \/ s[d1 + 1] # "." THEN 0
             ELSE IF d2 < d1 + 2 THEN 0
             ELSE d2

RECURSIVE SubFrom(_, _, _)
SubFrom(s, i, repl) ==
    IF i > Len(s) THEN <<>>
    ELSE IF MatchEnd(s, i) # 0 THEN repl \o SubFrom(s, MatchEnd(s, i) + 1, repl)
    ELSE <<s[i]>> \o SubFrom(s, i + 1, repl)

re_sub(repl, content) == SubFrom(content, 1, repl)

Size24 == <<"s", "i", "z", "e", " ", "=", " ", "2", "4", ".", "0">>
Size14 == <<"s", "i", "z", "e", " ", "=", " ", "1", "4", ".", "0">>

(***************************************************************************)
(* highdpi.py: the script                                                  *)
(***************************************************************************)
BeginA(xs, ala) ==
    [xs |-> xs, ala |-> ala, out |-> <<>>, conf |-> <<>>, ops |-> <<>>,
     exit |-> 0, done |-> FALSE, exc |-> ""]

\* run_cmd of highdpi.py (lines 13-17); the settings store itself is not modelled
highdpi_run_cmd(r, cmd, outcome) ==
    IF r.done THEN r
    ELSE LET r1 == [r EXCEPT !.ops = Append(@, Op("run", cmd))]
         IN  CASE outcome = "ok" -> r1
               [] outcome = "fail" -> print(r1, "Command failed")
               [] OTHER -> Uncaught(r1, "FileNotFoundError")

\* lines 34-37 and 76-79: the four xfconf-query invocations, env their outcomes
xfconf_settings(r, mode, env) ==
    LET r1 == highdpi_run_cmd(r, <<"/Gdk/WindowScalingFactor", IF mode = "highdpi" THEN "2" ELSE "1">>, env[1])
        r2 == highdpi_run_cmd(r1, <<"/general/theme", IF mode = "highdpi" THEN "Default-xhdpi" ELSE "Default">>, env[2])
        r3 == highdpi_run_cmd(r2, <<"/Gtk/CursorThemeSize", IF mode = "highdpi" THEN "42" ELSE "24">>, env[3])
    IN  highdpi_run_cmd(r3, <<"/Xft/DPI", IF mode = "highdpi" THEN "95" ELSE "96">>, env[4])

\* variant of xsessionrc_append: the marker is appended without looking
xsessionrc_append_always(r) ==
    IF r.xs.exists
    THEN [print(r, "Adding QT_SCALE_FACTOR to ~/.xsessionrc")
            EXCEPT !.xs.content = @ \o <<"\n">> \o Marker \o <<"\n">>,
                   !.ops = Append(@, Op("write", <<XSESSIONRC>>))]
    ELSE [r EXCEPT !.xs = TextFile(Marker \o <<"\n">>),
                   !.ops = Append(@, Op("write", <<XSESSIONRC>>))]

\* lines 40-53
xsessionrc_append(r) ==
    IF r.xs.exists
    THEN IF ~Contains(ReadText(r.xs.content), Marker)
         THEN [print(r, "Adding QT_SCALE_FACTOR to ~/.xsessionrc")
                 EXCEPT !.xs.content = @ \o <<"\n">> \o Marker \o <<"\n">>,
                        !.ops = Append(@, Op("write", <<XSESSIONRC>>))]
         ELSE print(r, "QT_SCALE_FACTOR already set in ~/.xsessionrc")
    ELSE [r EXCEPT !.xs = TextFile(Marker \o <<"\n">>),
                   !.ops = Append(@, Op("write", <<XSESSIONRC>>))]

\* lines 82-98
xsessionrc_remove(r) ==
    IF r.xs.exists
    THEN LET lines == readlines(r.xs.content)
             r1 == [r EXCEPT !.xs.content = Concat(KeptLines(lines)),
                             !.ops = Append(@, Op("write", <<XSESSIONRC>>))]
         IN  IF \E i \in 1..Len(lines) : Contains(lines[i], Marker)
             THEN print(r1, "Removing QT_SCALE_FACTOR from ~/.xsessionrc")
             ELSE print(r1, "QT_SCALE_FACTOR not found in ~/.xsessionrc")
    ELSE r

\* lines 56-67 and 101-111
alacritty_patch(r, repl, msg) ==
    IF r.ala.exists
    THEN [print(r, msg)
            EXCEPT !.ala.content = re_sub(repl, ReadText(r.ala.content)),
                   !.ops = Append(@, Op("write", <<ALACRITTY_CONFIG>>))]
    ELSE print(r, "Alacritty config not found")

\* lines 30-69
highdpi(r, env) ==
    LET r1 == xfconf_settings(print(r, "Enabling high-DPI settings..."), "highdpi", env)
    IN  IF r1.done THEN r1
        ELSE confirm(alacritty_patch(xsessionrc_append(r1), Size24,
                                     "Setting Alacritty font size to 24 for high-DPI"),
                     "High-DPI settings enabled. Please log out and back in.")

\* lines 72-113
normal(r, env) ==
    LET r1 == xfconf_settings(print(r, "Reverting to normal settings..."), "normal", env)
    IN  IF r1.done THEN r1
        ELSE confirm(alacritty_patch(xsessionrc_remove(r1), Size14,
                                     "Setting Alacritty font size to 14 for normal mode"),
                     "Normal settings restored. Please log out and back in.")

\* the whole script; argv is sys.argv[1:]
script(r, argv, env) ==
    IF Len(argv) # 1 THEN sys_exit(print(r, "Usage: <mode>"), 1)
    ELSE CASE argv[1] = "highdpi" -> highdpi(r, env)
           [] argv[1] = "normal" -> normal(r, env)
           [] OTHER -> sys_exit(print(print(r, "Error: Invalid mode"), "Usage: script.py <mode>"), 1)

(***************************************************************************)
(* highdpi.py: the inputs of an invocation and the state machine           *)
(***************************************************************************)
XsChunks == {<<"a">>, <<"\n">>, <<"\r">>, Marker}
AlaChunks == {Size14, SizePrefix, <<".", "5">>, <<"7">>, <<"\r">>}

Texts(chunks, n) == {Concat(cs) : cs \in SeqsUpTo(chunks, n)}

AllOk == <<"ok", "ok", "ok", "ok">>

\* the outcomes of the four xfconf-query invocations: at most one does not succeed
XfconfOutcomes ==
    {AllOk} \cup {[AllOk EXCEPT ![i] = o] : i \in 1..4, o \in {"fail", "oserror"}}

ObserveA(r, argv, env) ==
    [ran |-> TRUE, argv |-> argv, env |-> env,
     before_xs |-> xsessionrc, before_ala |-> alacritty,
     out |-> r.out, conf |-> r.conf, ops |-> r.ops, exit |-> r.exit, exc |-> r.exc]

NoRunA ==
    [ran |-> FALSE, argv |-> <<>>, env |-> AllOk,
     before_xs |-> NoFile, before_ala |-> NoFile,
     out |-> <<>>, conf |-> <<>>, ops |-> <<>>, exit |-> 0, exc |-> ""]

\* a streak of highdpi/normal cycles starting from the startup script f
NewStreak(f, mid) ==
    [valid |-> f.exists /\ ~Contains(f.content, Marker), base |-> f.content,
     k |-> 0, mid |-> mid]

\* bookkeeping: the content the current streak of completed highdpi, normal,
\* highdpi, normal, ... runs started from, and the cycles completed since
NextCycle(r, argv) ==
    IF r.exit # 0 THEN NewStreak(r.xs, FALSE)
    ELSE IF argv[1] = "highdpi"
         THEN IF cycle.valid /\ ~cycle.mid THEN [cycle EXCEPT !.mid = TRUE]
              ELSE NewStreak(xsessionrc, TRUE)
         ELSE IF cycle.valid /\ cycle.mid THEN [cycle EXCEPT !.mid = FALSE, !.k = @ + 1]
              ELSE NewStreak(r.xs, FALSE)

InitA ==
    /\ tool = "highdpi.py"
    /\ \/ /\ xsessionrc \in {NoFile} \cup {TextFile(t) : t \in Texts(XsChunks, MaxChunks)}
          /\ alacritty \in {NoFile, TextFile(Size14)}
       \/ /\ xsessionrc \in {NoFile, TextFile(<<"a", "\n">>)}
          /\ alacritty \in {NoFile} \cup {TextFile(t) : t \in Texts(AlaChunks, MaxAlaChunks)}
    /\ lastA = NoRunA
    /\ cycle = NewStreak(xsessionrc, FALSE)
    /\ runsA = 0
    /\ fs = [f \in Files |-> Absent]
    /\ dirs = {}
    /\ last = NoRun(fs)

RunA(argv, env) ==
    /\ tool = "highdpi.py"
    /\ runsA < MaxRuns
    /\ \E r \in {script(BeginA(xsessionrc, alacritty), argv, env)} :
        /\ xsessionrc' = r.xs
        /\ alacritty' = r.ala
        /\ lastA' = ObserveA(r, argv, env)
        /\ cycle' = NextCycle(r, argv)
        /\ runsA' = runsA + 1
        /\ UNCHANGED <<tool, varsB>>

HighDpi == \E env \in XfconfOutcomes : RunA(<<"highdpi">>, env)

Normal == \E env \in XfconfOutcomes : RunA(<<"normal">>, env)

BadArguments == \E argv \in {<<>>, <<"bogus">>, <<"highdpi", "normal">>} : RunA(argv, AllOk)

NextA == HighDpi \/ Normal \/ BadArguments

SpecA == InitA /\ [][NextA]_vars

(***************************************************************************)
(* Both programs: a behaviour runs one of them                             *)
(***************************************************************************)
Init == InitA \/ InitB

Next == NextA \/ NextB

Spec == Init /\ [][Next]_vars

(***************************************************************************)
(* Properties of nvidia.py                                                 *)
(***************************************************************************)
Privileged(l) == l.ran /\ l.root /\ l.command \in {"nvidia", "intel", "toggle"}

Unchanged(f) == fs[f] = last.before[f]

\* C2 (privilege gate): a command other than status run without elevated
\* privilege exits non-zero, writes and deletes no file and invokes no
\* external command, with or without the power-down flag.
PrivilegeGate ==
    (last.ran /\ ~last.root /\ last.command \notin {"", "status"}) =>
        /\ last.exit # 0
        /\ last.ops = <<>>
        /\ fs = last.before

PrivilegeGateWitness ==
    /\ last.ran /\ ~last.root
    /\ last.command = "intel" /\ last.power_down
    /\ last.before[NVIDIA_CONF].exists
    /\ last.exit = 1

\* C3 (enable without detection): when the PCI enumeration output holds no
\* matching line, the nvidia transition, reached directly or through toggle,
\* exits non-zero and does not create the output-class config file.
EnableWithoutDetection ==
    (last.applied = "nvidia" /\ last.detect # "n/a" /\ last.nomatch) =>
        /\ last.exit # 0
        /\ ~last.before[NVIDIA_CONF].exists => ~fs[NVIDIA_CONF].exists

EnableWithoutDetectionWitness ==
    /\ last.command = "toggle" /\ last.applied = "nvidia"
    /\ last.detect = "none" /\ last.nomatch
    /\ ~InSeq(last.out, "Warning: Could not detect NVIDIA BusID")
    /\ ~last.before[NVIDIA_CONF].exists /\ ~fs[NVIDIA_CONF].exists
    /\ last.exit = 1

\* C4 (power-down toggle): the intel profile with the power-down option and
\* then the intel profile without it: the device-removal rule file is
\* present after the first call and absent after the second.
PowerDownToggle ==
    [][(/\ last.applied = "intel" /\ last.power_down
        /\ last'.applied = "intel" /\ ~last'.power_down)
       => (fs[UDEV_RULES_FILE].exists /\ ~fs'[UDEV_RULES_FILE].exists)]_vars

\* the state file reads "intel-powerdown" only after a completed run of the
\* intel profile with the power-down option
PowerDownToggleWitness ==
    /\ last.applied = "intel" /\ ~last.power_down
    /\ last.before[STATE_FILE].text = "intel-powerdown"
    /\ last.before[UDEV_RULES_FILE].exists
    /\ ~fs[UDEV_RULES_FILE].exists

\* C8 (effect of a failed enable): when detection fails inside the nvidia
\* transition the process exits non-zero at once, with no file write and no
\* external command after the detection; the output-class config, the
\* display-manager script and fragment and the state file are as before;
\* only the device-removal rule file can have changed: it is removed, and
\* the rules reloaded, before detection runs if it was present.
FailedEnableEffect ==
    (last.applied = "nvidia" /\ last.detect = "none") =>
        /\ last.exit # 0
        /\ Unchanged(NVIDIA_CONF) /\ Unchanged(LIGHTDM_SETUP)
        /\ Unchanged(LIGHTDM_NVIDIA_CONF) /\ Unchanged(STATE_FILE)
        /\ ~fs[UDEV_RULES_FILE].exists
        /\ last.ops = IF last.before[UDEV_RULES_FILE].exists
                      THEN <<Op("remove", UDEV_RULES_FILE), Op("run", "udevadm"),
                             Op("run", "lspci")>>
                      ELSE <<Op("run", "lspci")>>

FailedEnableEffectWitness ==
    /\ last.applied = "nvidia" /\ last.detect = "none"
    /\ last.before[UDEV_RULES_FILE].exists /\ ~fs[UDEV_RULES_FILE].exists
    /\ last.before[NVIDIA_CONF].exists /\ fs[NVIDIA_CONF].exists
    /\ last.exit = 1

\* C9 (mutual exclusion): at the end of every privileged nvidia, intel or
\* toggle command, whatever the starting state, the flag and the outcome of
\* detection, the output-class config file and the device-removal rule file
\* do not both exist, so status cannot report mode nvidia with power down
\* enabled.
NvidiaExcludesPowerDown ==
    Privileged(last) =>
        /\ ~(fs[NVIDIA_CONF].exists /\ fs[UDEV_RULES_FILE].exists)
        /\ ~(get_current_mode(Begin(fs, dirs)) = "nvidia"
             /\ is_gpu_powered_down(Begin(fs, dirs)))

NvidiaExcludesPowerDownWitness ==
    /\ Privileged(last) /\ last.command = "nvidia"
    /\ last.before[UDEV_RULES_FILE].exists /\ last.before[NVIDIA_CONF].exists
    /\ last.exit = 0 /\ fs[NVIDIA_CONF].exists

(***************************************************************************)
(* Properties of highdpi.py                                                *)
(***************************************************************************)
\* the latest run was mode m and got past the settings commands
Ran(m) == lastA.ran /\ lastA.argv = <<m>> /\ lastA.exc = ""

\* occurrences of m in s
Count(s, m) ==
    Cardinality({i \in 1..(Len(s) - Len(m) + 1) : SubSeq(s, i, i + Len(m) - 1) = m})

\* the bytes of b without the lines (ended by "\n") that contain the marker
WithoutMarkerLines(b) == Concat(SelectSeq(SplitLines(b), LAMBDA l : ~Contains(l, Marker)))

\* C5 (marker removal law): normal mode on an existing startup script: when
\* no line contains the marker the file is unchanged byte for byte and
\* "not found" is reported; when the marker is present the lines containing
\* it are removed and every other line is kept verbatim, in order.
MarkerRemovalLaw ==
    (Ran("normal") /\ lastA.before_xs.exists) =>
        /\ xsessionrc.exists
        /\ xsessionrc.content = WithoutMarkerLines(lastA.before_xs.content)
        /\ ~Contains(lastA.before_xs.content, Marker) =>
              /\ xsessionrc = lastA.before_xs
              /\ InSeq(lastA.out, "QT_SCALE_FACTOR not found in ~/.xsessionrc")

\* C6 (marker append law): highdpi mode on the startup script: when the
\* marker is absent it is present exactly once afterwards; when it is
\* present the file is unchanged byte for byte and "already set" is reported.
MarkerAppendLaw ==
    Ran("highdpi") =>
        IF lastA.before_xs.exists /\ Contains(lastA.before_xs.content, Marker)
        THEN /\ xsessionrc = lastA.before_xs
             /\ InSeq(lastA.out, "QT_SCALE_FACTOR already set in ~/.xsessionrc")
        ELSE /\ xsessionrc.exists
             /\ Count(xsessionrc.content, Marker) = 1

MarkerAppendLawWitness ==
    /\ Ran("highdpi")
    /\ lastA.before_xs.exists
    /\ lastA.before_xs.content = <<"a", "\r">>
    /\ Count(xsessionrc.content, Marker) = 1

\* C7 (exit status and best effort): exit 1 with the usage text when the
\* argument is missing or is no mode; for a valid mode exit 0 whatever the
\* outcome of the four settings-store invocations: a failed one is logged,
\* the next commands and the file updates still run.
ValidMode == lastA.argv \in {<<"highdpi">>, <<"normal">>}

ExitStatusBestEffort ==
    lastA.ran =>
        IF ValidMode
        THEN /\ lastA.exit = 0
             /\ Cardinality({i \in 1..Len(lastA.ops) : lastA.ops[i].op = "run"}) = 4
             /\ lastA.conf # <<>>
             /\ AllOk # lastA.env => InSeq(lastA.out, "Command failed")
        ELSE /\ lastA.exit = 1
             /\ lastA.ops = <<>>
             /\ \E i \in 1..Len(lastA.out) : lastA.out[i] \in {"Usage: <mode>", "Usage: script.py <mode>"}

Newlines(k) == [i \in 1..k |-> "\n"]

\* C10 (round trip): from a startup script with content C without the
\* marker, highdpi then normal leaves C followed by one newline and no
\* marker line; after k such cycles, C followed by k newlines.
RoundTripAddsNewline ==
    (cycle.valid /\ ~cycle.mid /\ cycle.k >= 1) =>
        /\ xsessionrc.exists
        /\ xsessionrc.content = cycle.base \o Newlines(cycle.k)
        /\ xsessionrc.content # cycle.base
        /\ ~Contains(xsessionrc.content, Marker)

(***************************************************************************)
(* Properties of both programs                                             *)
(***************************************************************************)
\* the profile a run of nvidia.py applied
ProfileOf(l) == <<l.applied, l.applied = "intel" /\ l.power_down>>

\* two runs of nvidia.py in a row apply the same profile and detection, if
\* it ran, gave the same result
SameProfileB ==
    /\ last.ran /\ last'.ran
    /\ last.applied # "none"
    /\ ProfileOf(last') = ProfileOf(last)
    /\ last'.detect = last.detect /\ last'.busid = last.busid

\* two runs of highdpi.py in a row with the same valid mode
SameProfileA ==
    /\ lastA.ran /\ lastA'.ran
    /\ ValidMode /\ lastA'.argv = lastA.argv
    /\ lastA'.env = lastA.env

IdempotenceOfApplyWitnessB ==
    /\ last.applied = "nvidia" /\ last.exit = 0
    /\ last.before[STATE_FILE].text = "nvidia"
    /\ last.before[NVIDIA_CONF].busid = last.busid
    /\ fs = last.before

====
